---- MODULE Spec2Model ----
(***************************************************************************)
(* Model of inject_protovalidate.py: the two passes over the Smithy        *)
(* corpus (alias constraints, member constraints), the option builder,     *)
(* and the patch pass over one .proto file, run MaxRuns times in a row.    *)
(*                                                                         *)
(* Text is a sequence of tokens.  A .proto line is a sequence of tokens    *)
(* without NL; the file on disk is one token sequence with NL tokens.      *)
(* Blanks between words are implicit; the blanks the script itself emits   *)
(* (" [", the two-space indent of a multi-line option) and the leading     *)
(* indent of a line are tokens of their own.                               *)
(* Smithy text is a sequence of declarations whose traits are already      *)
(* split the way RE_TRAIT.findall splits them.                             *)
(***************************************************************************)
EXTENDS Integers, Sequences, FiniteSets, TLC

\* ------------------------------------------------------------ bounds
MaxRuns == 2
MaxImports == 2

\* ------------------------------------------------------------ Constraints
None == "None"

Constraints(smin, smax, nmin, nmax, rmin, rmax, u) ==
  [str_min |-> smin, str_max |-> smax, num_min |-> nmin, num_max |-> nmax,
   rep_min |-> rmin, rep_max |-> rmax, unique |-> u]

EmptyConstraints == Constraints(None, None, None, None, None, None, FALSE)

\* Python `a or b` on Optional[str]: _pick never returns the empty string
PyOr(a, b) == IF a # None THEN a ELSE b

\* merge with the operands' roles exchanged: the alias wins over the member
merge_aliasWins(self, other) ==
  Constraints(PyOr(self.str_min, other.str_min),
              PyOr(self.str_max, other.str_max),
              PyOr(self.num_min, other.num_min),
              PyOr(self.num_max, other.num_max),
              PyOr(self.rep_min, other.rep_min),
              PyOr(self.rep_max, other.rep_max),
              self.unique \/ other.unique)

merge(self, other) ==
  Constraints(PyOr(other.str_min, self.str_min),
              PyOr(other.str_max, self.str_max),
              PyOr(other.num_min, self.num_min),
              PyOr(other.num_max, self.num_max),
              PyOr(other.rep_min, self.rep_min),
              PyOr(other.rep_max, self.rep_max),
              self.unique \/ other.unique)

bool(c) ==
  \/ c.str_min # None \/ c.str_max # None
  \/ c.num_min # None \/ c.num_max # None
  \/ c.rep_min # None \/ c.rep_max # None
  \/ c.unique

\* ------------------------------------------------------------ traits
\* one element of RE_TRAIT.findall: the identifier after '@' and what
\* _pick finds for min and max in its argument text
Trait(id, mn, mx) == [id |-> id, min |-> mn, max |-> mx]

applyTrait(c, t) ==
  IF t.id = "length"
    THEN [c EXCEPT !.str_min = PyOr(t.min, c.str_min),
                   !.str_max = PyOr(t.max, c.str_max),
                   !.rep_min = PyOr(t.min, c.rep_min),
                   !.rep_max = PyOr(t.max, c.rep_max)]
  ELSE IF t.id = "range"
    THEN [c EXCEPT !.num_min = PyOr(t.min, c.num_min),
                   !.num_max = PyOr(t.max, c.num_max)]
  ELSE IF t.id = "uniqueItems"
    THEN [c EXCEPT !.unique = TRUE]
  ELSE c

RECURSIVE gatherFrom(_, _)
gatherFrom(c, trait_block) ==
  IF trait_block = <<>> THEN c
  ELSE gatherFrom(applyTrait(c, Head(trait_block)), Tail(trait_block))

gather_constraints(trait_block) == gatherFrom(EmptyConstraints, trait_block)

\* ------------------------------------------------------------ Smithy text
\* A .smithy file is a sequence of declarations in textual order.
\*   kw      the keyword that opens the declaration (string, list, integer,
\*           structure): what RE_STRING_ALIAS, RE_LIST_ALIAS, RE_STRUCT see
\*   before  the traits written in front of the keyword
\*   inside  the traits written between the braces of a list declaration
\*   members the member lines of a structure body, each with its trait lines
AliasDecl(kw, name, before, inside) ==
  [kw |-> kw, name |-> name, before |-> before, inside |-> inside,
   members |-> <<>>]

StructDecl(name, members) ==
  [kw |-> "structure", name |-> name, before |-> <<>>, inside |-> <<>>,
   members |-> members]

Member(traits, name, target) ==
  [traits |-> traits, name |-> name, target |-> target]

RECURSIVE memberTraits(_)
memberTraits(members) ==
  IF members = <<>> THEN <<>>
  ELSE Head(members).traits \o memberTraits(Tail(members))

\* every trait in the text of one declaration, in textual order
declTraits(d) == d.before \o d.inside \o memberTraits(d.members)

\* txt[:m.start()] for the declaration at index k: all the text above its
\* keyword, i.e. the earlier declarations of the file and its own `before`
RECURSIVE textAbove(_, _)
textAbove(txt, k) ==
  IF k = 1 THEN <<>>
  ELSE textAbove(txt, k - 1) \o declTraits(txt[k - 1])

prefixTraits(txt, k) == textAbove(txt, k) \o txt[k].before

\* txt[m.start(): brace_close + 1] for a list declaration: from the keyword
\* `list` to the first closing brace
listBlock(d) == d.inside

Put(map, key, val) ==
  [x \in DOMAIN map \cup {key} |-> IF x = key THEN val ELSE map[x]]

EmptyMap == [x \in {} |-> EmptyConstraints]

\* for m in RE_STRING_ALIAS.finditer(txt)
RECURSIVE stringAliases(_, _, _)
stringAliases(acs, txt, k) ==
  IF k > Len(txt) THEN acs
  ELSE stringAliases(
         IF txt[k].kw = "string"
           THEN Put(acs, txt[k].name, gather_constraints(prefixTraits(txt, k)))
           ELSE acs,
         txt, k + 1)

\* for m in RE_LIST_ALIAS.finditer(txt)
RECURSIVE listAliases(_, _, _)
listAliases(acs, txt, k) ==
  IF k > Len(txt) THEN acs
  ELSE listAliases(
         IF txt[k].kw = "list"
           THEN Put(acs, txt[k].name, gather_constraints(listBlock(txt[k])))
           ELSE acs,
         txt, k + 1)

pass1File(acs, txt) == listAliases(stringAliases(acs, txt, 1), txt, 1)

\* the member's own traits only, the alias dropped when the member has any
memberCons_directFirst(acs, mem) ==
  LET cons == gather_constraints(mem.traits)
  IN  IF mem.target \in DOMAIN acs /\ ~bool(cons) THEN acs[mem.target] ELSE cons

\* the effective constraint of one member (lines 130-132)
memberCons(acs, mem) ==
  LET cons == gather_constraints(mem.traits)
  IN  IF mem.target \in DOMAIN acs THEN merge(acs[mem.target], cons) ELSE cons

\* for mem in MEMBER_RX.finditer(body)
RECURSIVE structMembers(_, _, _, _)
structMembers(mcs, acs, struct, members) ==
  IF members = <<>> THEN mcs
  ELSE LET mem  == Head(members)
           cons == memberCons(acs, mem)
       IN  structMembers(
             IF bool(cons) THEN Put(mcs, <<struct, mem.name>>, cons) ELSE mcs,
             acs, struct, Tail(members))

\* for st in RE_STRUCT.finditer(txt)
RECURSIVE pass2File(_, _, _, _)
pass2File(mcs, acs, txt, k) ==
  IF k > Len(txt) THEN mcs
  ELSE pass2File(
         IF txt[k].kw = "structure"
           THEN structMembers(mcs, acs, txt[k].name, txt[k].members)
           ELSE mcs,
         acs, txt, k + 1)

\* ------------------------------------------------------------ tokens
NL   == "\n"
SP   == " "
IND  == "  "
MARK == "buf.validate.field"
IMPORT_PATH == "\"buf/validate/validate.proto\""

Range(seq) == {seq[k] : k \in 1..Len(seq)}

\* tokens that are not a \w+ word
NonWords ==
  {"(", ")", "[", "]", "{", "}", ";", ",", ".", "=", "//", NL, SP, IND, MARK,
   IMPORT_PATH, "\"proto3\"", "\"other.proto\"", "-40", "1.5"}

IsWord(t) == t \notin NonWords

\* \d+
IsDigits(t) == t \in {"0", "1", "2", "3", "5", "8", "9"}

\* \s
IsSpace(t) == t \in {SP, IND}

\* ftype.endswith("64")
EndsWith64(ftype) ==
  ftype \in {"int64", "uint64", "sint64", "fixed64", "sfixed64"}

RECURSIVE skipSpace(_)
skipSpace(line) ==
  IF line # <<>> /\ IsSpace(Head(line)) THEN skipSpace(Tail(line)) ELSE line

RECURSIVE upTo(_, _)
\* the longest prefix of s without the token t
upTo(s, t) ==
  IF s = <<>> \/ Head(s) = t THEN <<>> ELSE <<Head(s)>> \o upTo(Tail(s), t)

RECURSIVE Join(_, _)
\* sep.join(parts)
Join(parts, sep) ==
  IF parts = <<>> THEN <<>>
  ELSE IF Len(parts) = 1 THEN parts[1]
  ELSE parts[1] \o sep \o Join(Tail(parts), sep)

\* ------------------------------------------------------------ build_option
Attr(group, key, val) == <<group, ".", key, "=", val>>

QUALIFIER == <<"(", MARK, ")", ".">>

RECURSIVE replaceDoubleParen(_)
\* str.replace("((", "(")
replaceDoubleParen(s) ==
  IF Len(s) < 2 THEN s
  ELSE IF s[1] = "(" /\ s[2] = "("
    THEN <<"(">> \o replaceDoubleParen(SubSeq(s, 3, Len(s)))
  ELSE <<s[1]>> \o replaceDoubleParen(Tail(s))

\* the category without the test for a name ending in 64
numcat_no64(ftype) ==
  IF ftype = "double" THEN "double"
  ELSE IF ftype = "float" THEN "float"
  ELSE "int32"

numcat(ftype) ==
  IF ftype = "double" THEN "double"
  ELSE IF ftype = "float" THEN "float"
  ELSE IF EndsWith64(ftype) THEN "int64"
  ELSE "int32"

optionAttrs(ftype, repeated, c) ==
  IF repeated
    THEN (IF c.rep_min # None
            THEN <<Attr("repeated", "min_items", c.rep_min)>> ELSE <<>>)
      \o (IF c.rep_max # None
            THEN <<Attr("repeated", "max_items", c.rep_max)>> ELSE <<>>)
      \o (IF c.unique
            THEN <<Attr("repeated", "unique", "true")>> ELSE <<>>)
  ELSE IF ftype = "string"
    THEN (IF c.str_min # None
            THEN <<Attr("string", "min_len", c.str_min)>> ELSE <<>>)
      \o (IF c.str_max # None
            THEN <<Attr("string", "max_len", c.str_max)>> ELSE <<>>)
  ELSE (IF c.num_min # None
          THEN <<Attr(numcat(ftype), "gte", c.num_min)>> ELSE <<>>)
    \o (IF c.num_max # None
          THEN <<Attr(numcat(ftype), "lte", c.num_max)>> ELSE <<>>)

\* f" [((buf.validate.field).{attrs[0]})]".replace("((", "(")
inlineOption(attr) ==
  replaceDoubleParen(<<SP, "[", "(">> \o QUALIFIER \o attr \o <<")", "]">>)

\* f" [\n  {lined}\n]"
linedOption(attrs) ==
  <<SP, "[", NL, IND>>
    \o Join([k \in 1..Len(attrs) |-> QUALIFIER \o attrs[k]], <<",", NL, IND>>)
    \o <<NL, "]">>

build_option(ftype, repeated, c) ==
  LET attrs == optionAttrs(ftype, repeated, c)
  IN  IF attrs = <<>> THEN <<>>
      ELSE IF Len(attrs) = 1 THEN inlineOption(attrs[1])
      ELSE linedOption(attrs)

\* ------------------------------------------------------------ .proto text
NoMatch == [ok |-> FALSE, rep_kw |-> "", ftype |-> "", fname |-> "",
            tail |-> <<>>]

\* (\w+)\s+(\w+)\s*=\s*(\d+)([^;]*);  at the front of s
fieldAt(s, kw) ==
  IF /\ Len(s) >= 5
     /\ IsWord(s[1]) /\ IsWord(s[2]) /\ s[3] = "=" /\ IsDigits(s[4])
     /\ ";" \in Range(SubSeq(s, 5, Len(s)))
    THEN [ok |-> TRUE, rep_kw |-> kw, ftype |-> s[1], fname |-> s[2],
          tail |-> upTo(SubSeq(s, 5, Len(s)), ";")]
    ELSE NoMatch

\* FIELD_RX.match(line): the keyword group is tried first, then skipped
FIELD_RX(line) ==
  LET s == skipSpace(line)
      withKw == IF s # <<>> /\ Head(s) \in {"repeated", "optional"}
                  THEN fieldAt(Tail(s), Head(s)) ELSE NoMatch
  IN  IF withKw.ok THEN withKw ELSE fieldAt(s, "")

\* MSG_RX.match(line): the message name, or None
MSG_RX(line) ==
  LET s == skipSpace(line)
  IN  IF Len(s) >= 3 /\ s[1] = "message" /\ IsWord(s[2]) /\ s[3] = "{"
        THEN s[2] ELSE None

\* IMPORT_RX.fullmatch(l)
IMPORT_LINE == <<"import", IMPORT_PATH, ";">>

IMPORT_RX(l) == skipSpace(l) = IMPORT_LINE

RECURSIVE rstripSemi(_)
\* line.rstrip(";")
rstripSemi(line) ==
  IF line # <<>> /\ line[Len(line)] = ";"
    THEN rstripSemi(SubSeq(line, 1, Len(line) - 1)) ELSE line

\* the lookup by field name alone, whatever message was seen last
optionFor_anyMessage(line, ctx, mcs) ==
  LET m    == FIELD_RX(line)
      keys == {key \in DOMAIN mcs : key[2] = m.fname}
  IN  IF ~(ctx # None /\ m.ok) THEN <<>>
      ELSE IF MARK \in Range(m.tail) THEN <<>>
      ELSE IF keys = {} THEN <<>>
      ELSE LET key == CHOOSE key \in keys : TRUE
           IN  build_option(m.ftype, m.rep_kw = "repeated", mcs[key])

\* the option lines 186-197 choose for a line, <<>> where they `continue`
optionFor(line, ctx, mcs) ==
  LET m == FIELD_RX(line)
  IN  IF ~(ctx # None /\ m.ok) THEN <<>>
      ELSE IF MARK \in Range(m.tail) THEN <<>>
      ELSE IF <<ctx, m.fname>> \notin DOMAIN mcs THEN <<>>
      ELSE IF ~bool(mcs[<<ctx, m.fname>>]) THEN <<>>
      ELSE build_option(m.ftype, m.rep_kw = "repeated", mcs[<<ctx, m.fname>>])

\* lines[i] = line.rstrip(";") + option + ";"
rewriteLine(line, option) == rstripSemi(line) \o option \o <<";">>

RECURSIVE splitAt(_, _)
\* text.split(sep) for a one-token separator
splitAt(text, sep) ==
  LET first == upTo(text, sep)
  IN  IF Len(first) = Len(text) THEN <<first>>
      ELSE <<first>> \o splitAt(SubSeq(text, Len(first) + 2, Len(text)), sep)

\* str.splitlines(): no empty last line after a final line break
splitlines(text) ==
  LET parts == splitAt(text, NL)
  IN  IF parts[Len(parts)] = <<>> THEN SubSeq(parts, 1, Len(parts) - 1)
      ELSE parts

\* [idx for idx, l in enumerate(lines) if IMPORT_RX.fullmatch(l)]
importIdx(ls) == {k \in 1..Len(ls) : IMPORT_RX(ls[k])}

Min(S) == CHOOSE x \in S : \A y \in S : x <= y

\* lines 205-209: keep the first import, normalised, and delete the others
dedupeImports(ls) ==
  LET imports == importIdx(ls)
      first   == Min(imports)
      keep    == {k \in 1..Len(ls) : k \notin imports \/ k = first}
      kept    == [n \in 1..Cardinality(keep) |->
                    CHOOSE k \in keep : Cardinality({j \in keep : j < k}) = n - 1]
  IN  [n \in 1..Cardinality(keep) |->
         IF kept[n] = first THEN IMPORT_LINE ELSE ls[kept[n]]]

startswith(line, word) == line # <<>> /\ Head(line) = word

\* the insertion index without the look at the first two lines
insert_at_second(ls) == 1

\* lines 211-215 (an index of the 0-based list)
insert_at(ls) ==
  IF Len(ls) > 1 /\ startswith(ls[1], "syntax") /\ startswith(ls[2], "package")
    THEN 2 ELSE 1

\* list.insert(at, x): at is 0-based and clipped to the length
insert(ls, at, x) ==
  LET n == IF at > Len(ls) THEN Len(ls) ELSE at
  IN  SubSeq(ls, 1, n) \o <<x>> \o SubSeq(ls, n + 1, Len(ls))

\* lines 204-216
normaliseImports(ls, dirty) ==
  IF importIdx(ls) # {} THEN dedupeImports(ls)
  ELSE IF dirty THEN insert(ls, insert_at(ls), IMPORT_LINE)
  ELSE ls

\* ------------------------------------------------------------ state
VARIABLES
  smithy,              \* SMITHY_ROOT: the .smithy files in rglob order
  disk,                \* the text of the .proto file under PROTO_ROOT
  pc,                  \* where the script is
  run,                 \* how many times the script has been started
  fi,                  \* index of the next .smithy file of the running pass
  alias_constraints,
  member_constraints,
  lines, i, ctx, dirty, imports, patched_fields,
  lines0,              \* history: `lines` as read at line 173 of this run
  after1               \* history: the file text the first run left

vars == <<smithy, disk, pc, run, fi, alias_constraints, member_constraints,
          lines, i, ctx, dirty, imports, patched_fields, lines0, after1>>

\* ------------------------------------------------------------ inputs
ALIAS == "Al"

L(mn, mx) == Trait("length", mn, mx)
R(mn, mx) == Trait("range", mn, mx)
U == Trait("uniqueItems", None, None)
X == Trait("documentation", None, None)

\* trait lines in front of an alias or a member
TraitBlocks(lo, hi) ==
  {<<>>, <<L(lo, hi)>>, <<L(None, hi)>>, <<R(lo, hi)>>, <<U, R(lo, None)>>,
   <<X, L(lo, hi), U>>}

\* traits of a list declaration, in front of it or between its braces
ListBlocks(lo, hi) == {<<>>, <<L(lo, hi)>>, <<U>>, <<L(lo, hi), U>>}

Aliases ==
  {AliasDecl(kw, ALIAS, b, <<>>) :
     kw \in {"string", "integer"}, b \in TraitBlocks("2", "8")}
  \cup {AliasDecl("list", ALIAS, b, n) :
     b \in ListBlocks("2", "8"), n \in ListBlocks("3", "8")}

Structs ==
  {StructDecl("Msg", <<Member(d, "f", t)>>) :
     d \in TraitBlocks("1", "9"), t \in {ALIAS, "String"}}

\* the ways one alias and one structure lie in one or two files
Layouts(a, st) == {<<<<a>>, <<st>>>>, <<<<st>>, <<a>>>>, <<<<a, st>>>>, <<<<st, a>>>>}

SUB == StructDecl("Sub", <<Member(<<L(None, "5")>>, "f", "String")>>)

FixedCorpora ==
  {<<<<StructDecl("Msg", <<Member(<<L("1", "9")>>, "f", "String")>>), SUB>>>>,
   <<<<StructDecl("Msg", <<Member(<<R("-40", "1.5")>>, "f", "Integer")>>)>>, <<SUB>>>>,
   <<<<StructDecl("Msg", <<Member(<<L(None, "9")>>, "f", "String")>>)>>>>,
   <<<<AliasDecl("list", ALIAS, <<>>, <<L("2", "8"), U>>),
       StructDecl("Msg", <<Member(<<>>, "f", ALIAS)>>)>>>>,
   <<<<StructDecl("Msg", <<Member(<<>>, "f", "String")>>), SUB>>>>}

SYNTAX  == <<"syntax", "=", "\"proto3\"", ";">>
PACKAGE == <<"package", "demo", ";">>
CLOSE   == <<"}">>
Msg(name) == <<"message", name, "{">>

Field(kw, ftype, fname, tag, tail, rest) ==
  <<IND>> \o (IF kw = "" THEN <<>> ELSE <<kw>>) \o <<ftype, fname, "=", tag>>
    \o tail \o <<";">> \o rest

FieldTails ==
  {<<>>, <<SP, "[", "deprecated", "=", "true", "]">>,
   <<SP, "[", "(", MARK, ")", ".", "required", "=", "true", "]">>}

FieldRests == {<<>>, <<SP, "//", "c">>}

FieldLines ==
  {Field(kw, t, "f", "1", <<>>, <<>>) :
     kw \in {"", "repeated", "optional"},
     t \in {"string", "int32", "uint32", "int64", "uint64", "sfixed64",
            "double", "float", "bool"}}
  \cup {Field(kw, t, "f", "1", tl, r) :
     kw \in {"", "repeated"}, t \in {"string", "int32"},
     tl \in FieldTails, r \in FieldRests}

Bodies(F) ==
  {<<Msg("Msg"), F, CLOSE>>,
   <<Msg("Msg"), <<IND>> \o Msg("Sub"), <<IND>> \o Field("", "string", "f", "1", <<>>, <<>>),
     <<IND>> \o CLOSE, F, CLOSE>>,
   <<Msg("Msg"), F, CLOSE, <<>>, Msg("Sub"), Field("", "string", "f", "2", <<>>, <<>>), CLOSE>>,
   <<Msg("Msg"), Field("", "string", "g", "1", <<>>, <<>>), F, CLOSE>>,
   <<Msg("Other"), F, CLOSE>>}

ImportLines == {IMPORT_LINE, <<IND>> \o IMPORT_LINE}

\* all sequences of import lines of length n
ImportSeqs(n) == [1..n -> ImportLines]

Bases == {<<SYNTAX, PACKAGE>>, <<SYNTAX>>, <<<<>>, <<IND>> \o SYNTAX>>, <<>>,
          <<SYNTAX, <<"import", "\"other.proto\"", ";">>>>}

\* a file: base lines, import lines, a body, more import lines
Files(bases, bodies, maxImports) ==
  {base \o i1 \o body \o i2 :
     base \in bases, body \in bodies,
     i1 \in UNION {ImportSeqs(n) : n \in 0..maxImports},
     i2 \in UNION {ImportSeqs(n) : n \in 0..maxImports}}

\* the text of a file whose lines are ls, with or without a final line break
Texts(ls) == {Join(ls, <<NL>>), Join(ls, <<NL>>) \o <<NL>>}

SrcInputs ==
  {<<c, Join(<<SYNTAX, PACKAGE, Msg("Msg"), F, CLOSE>>, <<NL>>) \o <<NL>>>> :
     c \in UNION {Layouts(a, st) : a \in Aliases, st \in Structs},
     F \in {Field("", "string", "f", "1", <<>>, <<>>),
            Field("", "int32", "f", "1", <<>>, <<>>),
            Field("repeated", "string", "f", "1", <<>>, <<>>)}}

BodyInputs ==
  {<<c, Join(base \o body, <<NL>>) \o <<NL>>>> :
     c \in FixedCorpora,
     base \in {<<SYNTAX, PACKAGE>>, <<SYNTAX, IMPORT_LINE>>},
     body \in UNION {Bodies(F) : F \in FieldLines}}

HeaderInputs ==
  {<<c, t>> :
     c \in {<<<<StructDecl("Msg", <<Member(<<L("1", "9")>>, "f", "String")>>)>>>>},
     t \in UNION {Texts(ls) :
            ls \in {f \in Files(Bases,
                               Bodies(Field("", "string", "f", "1", <<>>, <<>>)),
                               MaxImports) :
                      Cardinality(importIdx(f)) <= MaxImports}}}

Inputs == SrcInputs \cup BodyInputs \cup HeaderInputs

Init ==
  /\ \E inp \in Inputs : smithy = inp[1] /\ disk = inp[2]
  /\ pc = "pass1"
  /\ run = 1
  /\ fi = 1
  /\ alias_constraints = EmptyMap
  /\ member_constraints = EmptyMap
  /\ lines = <<>>
  /\ i = 0
  /\ ctx = None
  /\ dirty = FALSE
  /\ imports = {}
  /\ patched_fields = 0
  /\ lines0 = <<>>
  /\ after1 = <<>>

\* ------------------------------------------------------------ actions
\* lines 102-115, one file
Pass1File ==
  /\ pc = "pass1"
  /\ alias_constraints' = pass1File(alias_constraints, smithy[fi])
  /\ IF fi < Len(smithy)
       THEN fi' = fi + 1 /\ pc' = pc
       ELSE fi' = 1 /\ pc' = "pass2"
  /\ UNCHANGED <<smithy, disk, run, member_constraints, lines, i, ctx, dirty,
                 imports, patched_fields, lines0, after1>>

\* lines 120-135, one file
Pass2File ==
  /\ pc = "pass2"
  /\ member_constraints' =
       pass2File(member_constraints, alias_constraints, smithy[fi], 1)
  /\ IF fi < Len(smithy)
       THEN fi' = fi + 1 /\ pc' = pc
       ELSE fi' = 1 /\ pc' = "read"
  /\ UNCHANGED <<smithy, disk, run, alias_constraints, lines, i, ctx, dirty,
                 imports, patched_fields, lines0, after1>>

\* lines 172-175
ReadProto ==
  /\ pc = "read"
  /\ lines' = splitlines(disk)
  /\ lines0' = lines'
  /\ dirty' = FALSE
  /\ ctx' = None
  /\ i' = 1
  /\ pc' = IF lines' = <<>> THEN "imports" ELSE "scan"
  /\ UNCHANGED <<smithy, disk, run, fi, alias_constraints, member_constraints,
                 imports, patched_fields, after1>>

\* lines 177-201, one iteration
PatchLine ==
  /\ pc = "scan"
  /\ LET line   == lines[i]
         option == optionFor(line, ctx, member_constraints)
     IN  IF MSG_RX(line) # None
           THEN /\ ctx' = MSG_RX(line)
                /\ UNCHANGED <<lines, dirty, patched_fields>>
         ELSE IF option = <<>>
           THEN UNCHANGED <<ctx, lines, dirty, patched_fields>>
         ELSE /\ lines' = [lines EXCEPT ![i] = rewriteLine(line, option)]
              /\ dirty' = TRUE
              /\ patched_fields' = patched_fields + 1
              /\ ctx' = ctx
  /\ IF i < Len(lines)
       THEN i' = i + 1 /\ pc' = pc
       ELSE i' = i /\ pc' = "imports"
  /\ UNCHANGED <<smithy, disk, run, fi, alias_constraints, member_constraints,
                 imports, lines0, after1>>

\* lines 204-216
NormaliseImports ==
  /\ pc = "imports"
  /\ imports' = importIdx(lines)
  /\ lines' = normaliseImports(lines, dirty)
  /\ pc' = "write"
  /\ UNCHANGED <<smithy, disk, run, fi, alias_constraints, member_constraints,
                 i, ctx, dirty, patched_fields, lines0, after1>>

\* lines 218-219
WriteBack ==
  /\ pc = "write"
  /\ disk' = IF dirty \/ imports # {} THEN Join(lines, <<NL>>) ELSE disk
  /\ pc' = "done"
  /\ UNCHANGED <<smithy, run, fi, alias_constraints, member_constraints,
                 lines, i, ctx, dirty, imports, patched_fields, lines0, after1>>

\* the script is started again on the same two directories
Rerun ==
  /\ pc = "done"
  /\ run < MaxRuns
  /\ run' = run + 1
  /\ after1' = IF run = 1 THEN disk ELSE after1
  /\ pc' = "pass1"
  /\ fi' = 1
  /\ alias_constraints' = EmptyMap
  /\ member_constraints' = EmptyMap
  /\ lines' = <<>>
  /\ i' = 0
  /\ ctx' = None
  /\ dirty' = FALSE
  /\ imports' = {}
  /\ patched_fields' = 0
  /\ UNCHANGED <<smithy, disk, lines0>>

Next ==
  \/ Pass1File
  \/ Pass2File
  \/ ReadProto
  \/ PatchLine
  \/ NormaliseImports
  \/ WriteBack
  \/ Rerun

Spec == Init /\ [][Next]_vars

\* ------------------------------------------------------------ vocabulary
\* of the properties below
Positions(seq, sub) ==
  {q \in 1..(Len(seq) - Len(sub) + 1) : SubSeq(seq, q, q + Len(sub) - 1) = sub}

Contains(seq, sub) == Positions(seq, sub) # {}

FirstPos(seq, sub) == Min(Positions(seq, sub))

Max(S) == CHOOSE x \in S : \A y \in S : x >= y

Count(seq, t) == Cardinality({k \in 1..Len(seq) : seq[k] = t})

\* the message line last seen above line k
lastMessageAbove(ls, k) ==
  LET S == {j \in 1..(k - 1) : MSG_RX(ls[j]) # None}
  IN  IF S = {} THEN None ELSE MSG_RX(ls[Max(S)])

RECURSIVE openMessages(_, _)
\* the messages open in front of line k, innermost last, by brace matching
openMessages(ls, k) ==
  IF k <= 1 THEN <<>>
  ELSE LET above == openMessages(ls, k - 1)
           l     == ls[k - 1]
       IN  IF MSG_RX(l) # None THEN Append(above, MSG_RX(l))
           ELSE IF skipSpace(l) = CLOSE /\ above # <<>>
             THEN SubSeq(above, 1, Len(above) - 1)
           ELSE above

enclosingMessage(ls, k) ==
  LET open == openMessages(ls, k)
  IN  IF open = <<>> THEN None ELSE open[Len(open)]

Decls == UNION {Range(smithy[n]) : n \in 1..Len(smithy)}

\* the members called `name` of the structures called `struct`
SrcMembers(struct, name) ==
  UNION {{mem \in Range(d.members) : mem.name = name} :
           d \in {e \in Decls : e.kw = "structure" /\ e.name = struct}}

\* the alias declarations called `name`
SrcAliases(name) == {d \in Decls : d.kw # "structure" /\ d.name = name}

\* what the patch pass appended to line k
annotation(k) ==
  SubSeq(lines[k], Len(rstripSemi(lines0[k])) + 1, Len(lines[k]))

Rewritten(k) == lines[k] # lines0[k]

\* a field line the patch pass looks up: inside a message, not yet annotated
Candidate(k) ==
  /\ FIELD_RX(lines0[k]).ok
  /\ MARK \notin Range(FIELD_RX(lines0[k]).tail)
  /\ lastMessageAbove(lines0, k) # None

Scanned == pc = "imports"

Resolved == pc \notin {"pass1", "pass2"}

\* ------------------------------------------------------------ C1
\* C1: a second (third, ...) run leaves the file text exactly as the first
\* run left it.
C1_Idempotent == (pc = "done" /\ run >= 2) => disk = after1

\* ------------------------------------------------------------ C2
\* C2 as stated: after the import normalisation exactly one import line of
\* the validation library is in the file, whatever the file held before.
C2_ExactlyOneImport ==
  pc = "write" => Cardinality(importIdx(lines)) = 1

headerSlot(ls) ==
  IF Len(ls) >= 2 /\ startswith(ls[1], "syntax") /\ startswith(ls[2], "package")
    THEN 3 ELSE 2

\* C2 amended: if the file held import lines, exactly one remains, at the
\* place of the first, and the later ones are deleted; if it held none and a
\* field was rewritten, exactly one is inserted, as third line after a
\* syntax and a package line and as second line otherwise; if it held none
\* and no field was rewritten, none is inserted.
C2_ImportNormalised ==
  pc = "write" =>
    LET imps0 == importIdx(lines0)
    IN  /\ imps0 # {} =>
             /\ importIdx(lines) = {Min(imps0)}
             /\ Len(lines) = Len(lines0) - Cardinality(imps0) + 1
        /\ (imps0 = {} /\ dirty) =>
             /\ importIdx(lines) = {headerSlot(lines0)}
             /\ Len(lines) = Len(lines0) + 1
        /\ (imps0 = {} /\ ~dirty) => lines = lines0

C2_Witness ==
  /\ pc = "write"
  /\ Cardinality(importIdx(lines0)) >= 2
  /\ Min(importIdx(lines0)) > 1
  /\ Max(importIdx(lines0)) > Min(importIdx(lines0)) + 1
  /\ dirty

\* ------------------------------------------------------------ C3
\* C3: a non-repeated string field whose source member has @length with min
\* and max is annotated with the qualified string.min_len = min and
\* string.max_len = max, min first, and string.max_len does not occur
\* unqualified before the qualified one.
C3_StringLength ==
  Scanned =>
    \A k \in 1..Len(lines0) :
      LET m == FIELD_RX(lines0[k])
      IN  (Candidate(k) /\ m.rep_kw # "repeated" /\ m.ftype = "string") =>
            \A mem \in SrcMembers(lastMessageAbove(lines0, k), m.fname) :
              \A t \in Range(mem.traits) :
                (t.id = "length" /\ t.min # None /\ t.max # None) =>
                  LET a   == QUALIFIER \o Attr("string", "min_len", t.min)
                      b   == QUALIFIER \o Attr("string", "max_len", t.max)
                      ann == annotation(k)
                  IN  /\ Contains(ann, a)
                      /\ Contains(ann, b)
                      /\ FirstPos(ann, a) < FirstPos(ann, b)
                      /\ FirstPos(ann, <<"string", ".", "max_len">>)
                           = FirstPos(ann, b) + Len(QUALIFIER)

C3_Witness ==
  /\ Scanned
  /\ \E k \in 1..Len(lines0) :
       /\ Candidate(k) /\ Rewritten(k)
       /\ FIELD_RX(lines0[k]).ftype = "string"
       /\ FIELD_RX(lines0[k]).rep_kw = "optional"
       /\ \E mem \in SrcMembers(lastMessageAbove(lines0, k), "f") :
            L("1", "9") \in Range(mem.traits)

\* ------------------------------------------------------------ C4
expectedCategory(ftype) ==
  CASE ftype = "double" -> "double"
    [] ftype = "float" -> "float"
    [] ftype \in {"int64", "uint64", "sfixed64"} -> "int64"
    [] OTHER -> "int32"

\* C4: a non-repeated, non-string field whose source member has @range with
\* min and max is annotated with exactly <cat>.gte = min and <cat>.lte = max,
\* cat being double, float, int64 (type names ending in 64) or int32.
C4_NumericRange ==
  Scanned =>
    \A k \in 1..Len(lines0) :
      LET m == FIELD_RX(lines0[k])
      IN  (Candidate(k) /\ m.rep_kw # "repeated" /\ m.ftype # "string") =>
            \A mem \in SrcMembers(lastMessageAbove(lines0, k), m.fname) :
              \A t \in Range(mem.traits) :
                (t.id = "range" /\ t.min # None /\ t.max # None) =>
                  LET cat == expectedCategory(m.ftype)
                  IN  annotation(k) =
                        <<SP, "[", NL, IND>>
                          \o QUALIFIER \o <<cat, ".", "gte", "=", t.min>>
                          \o <<",", NL, IND>>
                          \o QUALIFIER \o <<cat, ".", "lte", "=", t.max>>
                          \o <<NL, "]", ";">>

C4_Witness ==
  /\ Scanned
  /\ \E k \in 1..Len(lines0) :
       /\ Candidate(k) /\ Rewritten(k)
       /\ FIELD_RX(lines0[k]).ftype = "uint64"
       /\ Contains(lines[k], <<"int64", ".", "lte", "=", "1.5">>)

\* ------------------------------------------------------------ C5
\* C5: a repeated field whose source member's type is a list alias with
\* @length(min, max) and @uniqueItems (the member itself has no @length) is
\* annotated with repeated.min_items, repeated.max_items and
\* repeated.unique = true, in that order, and with nothing of the string or
\* numeric groups.
C5_RepeatedListAlias ==
  Scanned =>
    \A k \in 1..Len(lines0) :
      LET m == FIELD_RX(lines0[k])
      IN  (Candidate(k) /\ m.rep_kw = "repeated") =>
            \A mem \in SrcMembers(lastMessageAbove(lines0, k), m.fname) :
              \A d \in SrcAliases(mem.target) :
                LET own == Range(d.before) \cup Range(d.inside)
                IN  (/\ d.kw = "list"
                     /\ \A t \in Range(mem.traits) : t.id # "length"
                     /\ \E t \in own :
                          t.id = "length" /\ t.min # None /\ t.max # None
                     /\ U \in own) =>
                      LET ann == annotation(k)
                          a == QUALIFIER \o <<"repeated", ".", "min_items">>
                          b == QUALIFIER \o <<"repeated", ".", "max_items">>
                          c == QUALIFIER \o Attr("repeated", "unique", "true")
                      IN  /\ Contains(ann, a) /\ Contains(ann, b)
                          /\ Contains(ann, c)
                          /\ FirstPos(ann, a) < FirstPos(ann, b)
                          /\ FirstPos(ann, b) < FirstPos(ann, c)
                          /\ Range(ann) \cap
                               {"string", "int32", "int64", "double", "float"}
                               = {}

\* ------------------------------------------------------------ C6
\* C6: a member whose type is a numeric alias declared under
\* @range(min, max), and that has no @range of its own, has these bounds in
\* the member constraint map.
C6_NumericAliasRange ==
  Resolved =>
    \A st \in {e \in Decls : e.kw = "structure"} :
      \A mem \in Range(st.members) :
        \A d \in SrcAliases(mem.target) :
          \A t \in Range(d.before) :
            (/\ d.kw = "integer"
             /\ t.id = "range" /\ t.min # None /\ t.max # None
             /\ \A o \in Range(mem.traits) : o.id # "range") =>
               /\ <<st.name, mem.name>> \in DOMAIN member_constraints
               /\ member_constraints[<<st.name, mem.name>>].num_min = t.min
               /\ member_constraints[<<st.name, mem.name>>].num_max = t.max

\* ------------------------------------------------------------ C7
\* C7 as stated: a line is rewritten only if it is a field line and the
\* member constraint map has an entry, with a non-empty option, for the
\* message that encloses the line and the field name.
C7_EnclosingMessage ==
  Scanned =>
    \A k \in 1..Len(lines0) :
      Rewritten(k) =>
        LET m   == FIELD_RX(lines0[k])
            key == <<enclosingMessage(lines0, k), m.fname>>
        IN  /\ m.ok
            /\ key \in DOMAIN member_constraints
            /\ build_option(m.ftype, m.rep_kw = "repeated",
                            member_constraints[key]) # <<>>

\* C7 amended: a line is rewritten only if it is a field line and the member
\* constraint map has an entry, with a non-empty option, for the message
\* declared last above the line (whether or not that message was closed
\* since) and the field name; every other line is left as it was.
C7_LastMessage ==
  Scanned =>
    \A k \in 1..Len(lines0) :
      Rewritten(k) =>
        LET m   == FIELD_RX(lines0[k])
            key == <<lastMessageAbove(lines0, k), m.fname>>
        IN  /\ m.ok
            /\ key \in DOMAIN member_constraints
            /\ build_option(m.ftype, m.rep_kw = "repeated",
                            member_constraints[key]) # <<>>

\* a field of Msg, below the nested message Sub, rewritten from Sub's member
C7_Witness ==
  /\ Scanned
  /\ <<"Msg", "f">> \notin DOMAIN member_constraints
  /\ \E k \in 1..Len(lines0) :
       /\ Rewritten(k)
       /\ enclosingMessage(lines0, k) = "Msg"
       /\ lastMessageAbove(lines0, k) = "Sub"

\* ------------------------------------------------------------ C8
\* C8: the alias constraint map entry of a list alias has the bounds and the
\* uniqueness flag of the traits written in front of the declaration as well
\* as of those written inside its block.
C8_ListTraitsBothPlaces ==
  pc # "pass1" =>
    \A d \in {e \in Decls : e.kw = "list"} :
      /\ d.name \in DOMAIN alias_constraints
      /\ \A t \in Range(d.before) \cup Range(d.inside) :
           /\ t.id = "uniqueItems" => alias_constraints[d.name].unique
           /\ (t.id = "length" /\ t.min # None) =>
                alias_constraints[d.name].rep_min # None
           /\ (t.id = "length" /\ t.max # None) =>
                alias_constraints[d.name].rep_max # None

\* ------------------------------------------------------------ C9
Prefer(direct, alias) == IF direct # None THEN direct ELSE alias

\* C9: for a member whose type is a known alias the stored constraint has,
\* bound by bound, the member's own value where it has one and the alias's
\* otherwise, unique being the OR of both; nothing is stored when that is
\* all-empty; no stored constraint is all-empty.
C9_EffectiveConstraint ==
  Resolved =>
    /\ \A key \in DOMAIN member_constraints : bool(member_constraints[key])
    /\ \A st \in {e \in Decls : e.kw = "structure"} :
         \A mem \in Range(st.members) :
           mem.target \in DOMAIN alias_constraints =>
             LET al  == alias_constraints[mem.target]
                 dr  == gather_constraints(mem.traits)
                 exp == [str_min |-> Prefer(dr.str_min, al.str_min),
                         str_max |-> Prefer(dr.str_max, al.str_max),
                         num_min |-> Prefer(dr.num_min, al.num_min),
                         num_max |-> Prefer(dr.num_max, al.num_max),
                         rep_min |-> Prefer(dr.rep_min, al.rep_min),
                         rep_max |-> Prefer(dr.rep_max, al.rep_max),
                         unique  |-> (al.unique \/ dr.unique)]
                 key == <<st.name, mem.name>>
             IN  IF exp = EmptyConstraints
                   THEN key \notin DOMAIN member_constraints
                   ELSE /\ key \in DOMAIN member_constraints
                        /\ member_constraints[key] = exp

\* an alias with bounds, declared in a file scanned after the structure's,
\* and a member that sets one of the alias's bounds anew and not the other
C9_Witness ==
  /\ Resolved
  /\ Len(smithy) = 2
  /\ smithy[2][1].kw = "string"
  /\ ALIAS \in DOMAIN alias_constraints
  /\ <<"Msg", "f">> \in DOMAIN member_constraints
  /\ alias_constraints[ALIAS].str_min = "2"
  /\ alias_constraints[ALIAS].str_max = "8"
  /\ member_constraints[<<"Msg", "f">>].str_min = "2"
  /\ member_constraints[<<"Msg", "f">>].str_max = "9"

\* ------------------------------------------------------------ C10
\* C10: the text appended to a rewritten line is, for one attribute,
\* ` [(buf.validate.field).<attribute>]` with balanced parentheses, and for
\* more a bracketed list of qualified attributes, one per line.
C10_OptionFormat ==
  Scanned =>
    \A k \in 1..Len(lines0) :
      Rewritten(k) =>
        LET ann   == annotation(k)
            attrs == Positions(ann, QUALIFIER)
        IN  /\ Count(ann, "(") = Count(ann, ")")
            /\ Count(ann, "[") = Count(ann, "]")
            /\ Cardinality(attrs) = 1 =>
                 /\ SubSeq(ann, 1, 2 + Len(QUALIFIER)) = <<SP, "[">> \o QUALIFIER
                 /\ SubSeq(ann, Len(ann) - 1, Len(ann)) = <<"]", ";">>
                 /\ Len(ann) = 2 + Len(QUALIFIER) + 5 + 2
            /\ Cardinality(attrs) >= 2 =>
                 /\ SubSeq(ann, 1, 4) = <<SP, "[", NL, IND>>
                 /\ SubSeq(ann, Len(ann) - 2, Len(ann)) = <<NL, "]", ";">>
                 /\ Count(ann, NL) = Cardinality(attrs) + 1

====
